---- MODULE Spec2Model ----
(***************************************************************************)
(* A model of xtract.py: the extractor of Egosoft X4 cat/dat archive       *)
(* pairs.  Text is modelled as sequences of one-character strings, so that *)
(* strip, split, int and the pathlib accessors are computed as Python      *)
(* computes them.  Data files are sequences of byte values.                *)
(***************************************************************************)
EXTENDS Integers, Sequences, FiniteSets, TLC

(***************************************************************************)
(* Bounds of the model.                                                    *)
(***************************************************************************)
MaxLines == 2      \* lines of an index file
MaxData == 4       \* bytes of a data file
MaxFiles == 3      \* cat files of one extraction job

Min(a, b) == IF a < b THEN a ELSE b

Range(s) == {s[i] : i \in 1..Len(s)}

RECURSIVE SeqsUpTo(_, _)
SeqsUpTo(S, n) ==
    IF n = 0 THEN {<<>>}
    ELSE LET shorter == SeqsUpTo(S, n - 1)
         IN  shorter \cup {Append(s, x) : s \in {q \in shorter : Len(q) = n - 1}, x \in S}

(***************************************************************************)
(* Python str operations used by the program.                              *)
(***************************************************************************)
Whitespace == {" ", "\n", "\t"}

RECURSIVE LStrip(_)
LStrip(s) == IF s # <<>> /\ Head(s) \in Whitespace THEN LStrip(Tail(s)) ELSE s

RECURSIVE RStrip(_)
RStrip(s) ==
    IF s # <<>> /\ s[Len(s)] \in Whitespace THEN RStrip(SubSeq(s, 1, Len(s) - 1)) ELSE s

\* str.strip()
Strip(s) == RStrip(LStrip(s))

\* str.split(sep) with a one-character separator: never an empty list,
\* adjacent separators give empty fields.
RECURSIVE Split(_, _)
Split(s, sep) ==
    IF \E i \in 1..Len(s) : s[i] = sep
    THEN LET i == CHOOSE k \in 1..Len(s) : s[k] = sep /\ \A j \in 1..(k - 1) : s[j] # sep
         IN  <<SubSeq(s, 1, i - 1)>> \o Split(SubSeq(s, i + 1, Len(s)), sep)
    ELSE <<s>>

StartsWith(s, p) == Len(s) >= Len(p) /\ SubSeq(s, 1, Len(p)) = p

EndsWith(s, p) == Len(s) >= Len(p) /\ SubSeq(s, Len(s) - Len(p) + 1, Len(s)) = p

\* str.rfind(".") (1-based; 0 when absent)
RFindDot(s) ==
    IF \E i \in 1..Len(s) : s[i] = "."
    THEN CHOOSE i \in 1..Len(s) : s[i] = "." /\ \A j \in (i + 1)..Len(s) : s[j] # "."
    ELSE 0

DigitChars == {"0", "1", "2", "3", "4", "5", "6", "7", "8", "9"}

DigitVal(c) ==
    CASE c = "0" -> 0 [] c = "1" -> 1 [] c = "2" -> 2 [] c = "3" -> 3 [] c = "4" -> 4
      [] c = "5" -> 5 [] c = "6" -> 6 [] c = "7" -> 7 [] c = "8" -> 8 [] c = "9" -> 9

RECURSIVE DigitsVal(_)
DigitsVal(s) == IF s = <<>> THEN 0 ELSE 10 * DigitsVal(SubSeq(s, 1, Len(s) - 1)) + DigitVal(s[Len(s)])

\* int(s): surrounding whitespace, an optional sign, decimal digits.
IntBody(s) == LET b == Strip(s) IN IF b # <<>> /\ Head(b) \in {"+", "-"} THEN Tail(b) ELSE b

IsInt(s) == IntBody(s) # <<>> /\ \A i \in 1..Len(IntBody(s)) : IntBody(s)[i] \in DigitChars

IntOf(s) ==
    LET b == Strip(s)
    IN  IF b # <<>> /\ Head(b) = "-" THEN 0 - DigitsVal(IntBody(s)) ELSE DigitsVal(IntBody(s))

(***************************************************************************)
(* pathlib.  A path is [abs, parts]; parts are names (character            *)
(* sequences).  Path("") is ".", the path with no parts.                   *)
(***************************************************************************)
PathOf(s) ==
    [abs   |-> s # <<>> /\ Head(s) = "/",
     parts |-> SelectSeq(Split(s, "/"), LAMBDA p : p # <<>> /\ p # <<".">>)]

PathParent(p) ==
    [abs |-> p.abs, parts |-> IF p.parts = <<>> THEN <<>> ELSE SubSeq(p.parts, 1, Len(p.parts) - 1)]

PathName(p) == IF p.parts = <<>> THEN <<>> ELSE p.parts[Len(p.parts)]

\* PurePath.suffix of a name: from the last dot, unless the dot leads or ends the name.
NameSuffix(n) ==
    LET i == RFindDot(n) IN IF 1 < i /\ i < Len(n) THEN SubSeq(n, i, Len(n)) ELSE <<>>

PathSuffix(p) == NameSuffix(PathName(p))

\* PurePath.stem
NameStem(n) ==
    LET i == RFindDot(n) IN IF 1 < i /\ i < Len(n) THEN SubSeq(n, 1, i - 1) ELSE n

\* PurePath.with_suffix
NameWithSuffix(n, suffix) == NameStem(n) \o suffix

\* a / b
PathJoin(a, b) == IF b.abs THEN b ELSE [abs |-> a.abs, parts |-> a.parts \o b.parts]

Prefixes(parts) == {SubSeq(parts, 1, k) : k \in 0..Len(parts)}

ProperPrefixes(parts) == {SubSeq(parts, 1, k) : k \in 0..(Len(parts) - 1)}

(***************************************************************************)
(* Names.                                                                  *)
(***************************************************************************)
DotCat == <<".", "c", "a", "t">>
DotDat == <<".", "d", "a", "t">>
SigMark == <<"_", "s", "i", "g">>
Base == <<"b", "a", "s", "e">>
ExtensionsName == <<"e", "x", "t", "e", "n", "s", "i", "o", "n", "s">>
DlcPrefix == <<"e", "g", "o", "_", "d", "l", "c", "_">>

\* The keys of EXPANSIONS.
EXPANSIONS ==
    {DlcPrefix \o n : n \in { <<"b", "o", "r", "o", "n">>, <<"p", "i", "r", "a", "t", "e">>,
                             <<"s", "p", "l", "i", "t">>, <<"t", "e", "r", "r", "a", "n">>,
                             <<"t", "i", "m", "e", "l", "i", "n", "e", "s">>,
                             <<"v", "e", "n", "t", "u", "r", "e", "s">>,
                             <<"m", "i", "n", "i", "_", "0", "1">>,
                             <<"m", "i", "n", "i", "_", "0", "2">>,
                             <<"m", "i", "n", "i", "_", "0", "3">>}}

(***************************************************************************)
(* The inputs the model draws from.                                        *)
(***************************************************************************)
\* The destination directory (resolved, so absolute) and a directory in it
\* that may exist beforehand without write permission.
OutRoot == [abs |-> TRUE, parts |-> << <<"o">> >>]
RoDir == OutRoot.parts \o << <<"r">> >>

\* The archive pair handed to extract_cat: t.cat and t.dat of the source directory.
TCat == [dir |-> <<>>, name |-> <<"t">> \o DotCat]

Meta == <<" ", "m", " ", "m", " ">>
Trail == <<" ", "0", " ", "0", "\n">>

\* Index lines: <path> m m <size> 0 0.
LineAx == <<"a", ".", "x">> \o Meta \o <<"1">> \o Trail
LineBy == <<"b", ".", "y">> \o Meta \o <<"2">> \o Trail
LineDCx == <<"d", "/", "c", ".", "x">> \o Meta \o <<"2">> \o Trail
LineREx == <<"r", "/", "e", ".", "x">> \o Meta \o <<"1">> \o Trail
LineAxGx == <<"a", ".", "x", "/", "g", ".", "x">> \o Meta \o <<"1">> \o Trail

LinePool == {LineAx, LineBy, LineDCx, LineREx, LineAxGx}

FilterPool == { << <<"x">> >>, << <<"x">>, <<"y">> >> }

\* The bytes of a data file of n bytes: every offset holds a different value.
DataOf(n) == [i \in 1..n |-> i]

(***************************************************************************)
(* State.                                                                  *)
(***************************************************************************)
VARIABLES
    src,         \* source tree: [dir, name] -> content (index lines, or data bytes)
    extensions,  \* file_types: the extension filter, a list of strings
    roDirs,      \* directories of the output tree in which nothing can be created
    diskErr,     \* whether a write to an output file can fail
    dirs,        \* directories that exist (absolute paths, as parts)
    files,       \* output files that exist: path -> bytes
    writes,      \* every completed outf.write, in order
    logs,        \* warnings and errors logged, in order
    xpc,         \* per target: where its extract_cat call stands
    xcat,        \* per target: cat_file of the call
    xout,        \* per target: output of the call
    lineNo,      \* per target: the index line the loop is at
    cursor,      \* per target: position of d_file
    xerr,        \* per target: the exception the call raised
    srcDirs,     \* directories of the source tree (parts below foundation_dir)
    include,     \* files_specified: the names asked for, a list of strings
    wantExp,     \* expansions: whether expansions are asked for
    workers,     \* max_workers of the ThreadPoolExecutor
    uiErr,       \* targets whose progress display raises on update
    argTypes,    \* args.types: the -t string of the command line (or its default)
    cpc,         \* a direct call of collect_files: where it stands
    cres,        \* ... and what it returned
    jpc,         \* per target: where its extraction_job stands
    jfiles,      \* per target: files of the job
    jout,        \* per target: output_dir of the job
    jidx,        \* per target: the file the loop is at
    called,      \* per target: the cat files extract_cat was called with, in order
    progress,    \* per target: what the progress display was told, in order
    mpc,         \* where main stands
    merr,        \* the exception main raised
    targets,     \* extraction_targets, in insertion order: [name, files]
    pending,     \* official_expansions not yet looked at
    submitted,   \* the targets submitted to the executor, in order
    awaited      \* the targets whose future main has taken from as_completed

envVars == <<src, extensions, roDirs, diskErr, srcDirs, include, wantExp, workers, uiErr, argTypes>>
outVars == <<dirs, files, writes>>
xVars == <<xpc, xcat, xout, lineNo, cursor, xerr>>
cVars == <<cpc, cres>>
jVars == <<jpc, jfiles, jout, jidx, called, progress>>
mVars == <<mpc, merr, targets, pending, submitted, awaited>>
others == <<cVars, jVars, mVars>>
vars == <<envVars, outVars, logs, xVars, cVars, jVars, mVars>>

\* Directories found in foundation_dir/extensions: two known expansions, one the
\* EXPANSIONS table does not know, one without the prefix.
DlcBoron == DlcPrefix \o <<"b", "o", "r", "o", "n">>
DlcSplit == DlcPrefix \o <<"s", "p", "l", "i", "t">>
Unknown == DlcPrefix \o <<"z">>
ModDir == <<"m", "o", "d">>

TargetNames == {Base, DlcBoron, DlcSplit}

DatOf(cat) == [dir |-> cat.dir, name |-> NameWithSuffix(cat.name, DotDat)]

Exists(f) == f \in DOMAIN src

Put(f, k, v) == [x \in DOMAIN f \cup {k} |-> IF x = k THEN v ELSE f[x]]

(***************************************************************************)
(* extract_cat: the parts of one pass of its loop.                         *)
(***************************************************************************)
Drop1(s) == IF s = <<>> THEN <<>> ELSE Tail(s)

\* fields = line.strip().split(" ")
Fields(line) == Split(Strip(line), " ")

\* filepath = Path(fields[0])
RecPath(fields) == PathOf(fields[1])

\* fields[-3] exists
HasSizeField(fields) == Len(fields) >= 3

SizeField(fields) == fields[Len(fields) - 2]

\* filepath.suffix[1:] not in extensions
Kept(filepath, exts) == Drop1(PathSuffix(filepath)) \in Range(exts)

\* d_file.read(size) of a BufferedReader at cur: a size below -1 is a ValueError,
\* -1 reads to the end, otherwise at most size bytes.
ReadRaises(size) == size < -1

ReadBytes(data, cur, size) ==
    IF size = -1 THEN SubSeq(data, cur + 1, Len(data))
    ELSE SubSeq(data, cur + 1, Min(cur + size, Len(data)))

\* A skip that forgets the read.
SkipCursorNoRead(data, cur, size) == cur

\* The position of d_file after the read of a skipped record.
SkipCursor(data, cur, size) == cur + Len(ReadBytes(data, cur, size))

\* not Path(output / file_parent).is_dir()
NeedsMkdir(D, target) == target \notin D

\* The deepest directory that exists on the way to target.
NearestDir(D, target) ==
    CHOOSE p \in ProperPrefixes(target) :
        /\ p \in D
        /\ \A q \in ProperPrefixes(target) : q \in D => Len(q) <= Len(p)

\* Path.mkdir(parents=True) of a path that is not a directory: the exception it
\* raises, or "none".
MkdirError(D, F, ro, target) ==
    IF target \in DOMAIN F THEN "FileExistsError"
    ELSE IF \E p \in ProperPrefixes(target) : p \in DOMAIN F THEN "NotADirectoryError"
    ELSE IF NearestDir(D, target) \in ro THEN "PermissionError"
    ELSE "none"

MkdirParents(D, target) == D \cup Prefixes(target)

ParentParts(path) == IF path = <<>> THEN <<>> ELSE SubSeq(path, 1, Len(path) - 1)

\* Path.open(output / filepath, "wb") raises OSError
OpenFails(D, ro, path) == path \in D \/ ParentParts(path) \in ro

\* The position of d_file after a record whose output file could not be opened:
\* the read is an argument of the write that never ran.
CursorAfterOpenFailure(data, cur, size) == cur

NoEffect(cur, D, F) ==
    [exc |-> "none", cur |-> cur, dirs |-> D, files |-> F, wrote |-> <<>>, log |-> <<>>]

\* Lines 110-117: the try block of a kept record whose directory exists.
WriteRecord(path, size, data, cur, D, F, ro, wfail) ==
    IF OpenFails(D, ro, path)
    THEN [NoEffect(cur, D, F) EXCEPT
             !.cur = CursorAfterOpenFailure(data, cur, size),
             !.log = << [lvl |-> "warning", msg |-> "write_error", path |-> path] >>]
    ELSE IF ReadRaises(size)
    THEN [NoEffect(cur, D, F) EXCEPT
             !.files = Put(F, path, <<>>),
             !.log = << [lvl |-> "error", msg |-> "unexpected_error", path |-> path] >>]
    ELSE IF wfail
    THEN [NoEffect(cur, D, F) EXCEPT
             !.cur = cur + Len(ReadBytes(data, cur, size)),
             !.files = Put(F, path, <<>>),
             !.log = << [lvl |-> "warning", msg |-> "write_error", path |-> path] >>]
    ELSE [NoEffect(cur, D, F) EXCEPT
             !.cur = cur + Len(ReadBytes(data, cur, size)),
             !.files = Put(F, path, ReadBytes(data, cur, size)),
             !.wrote = << [path |-> path, at |-> cur, bytes |-> ReadBytes(data, cur, size)] >>]

\* Lines 107-108: an exception of mkdir leaves extract_cat.
MkdirThenWrite(filepath, out, size, data, cur, D, F, ro, wfail) ==
    LET target == PathJoin(out, PathParent(filepath)).parts
        path == PathJoin(out, filepath).parts
    IN  IF NeedsMkdir(D, target)
        THEN IF MkdirError(D, F, ro, target) # "none"
             THEN [NoEffect(cur, D, F) EXCEPT !.exc = MkdirError(D, F, ro, target)]
             ELSE WriteRecord(path, size, data, cur, MkdirParents(D, target), F, ro, wfail)
        ELSE WriteRecord(path, size, data, cur, D, F, ro, wfail)

\* A pass that takes a line without a usable length for no record and goes on.
LineResultSkipsMalformed(line, exts, out, data, cur, D, F, ro, wfail) ==
    LET fields == Fields(line)
    IN  IF ~HasSizeField(fields) \/ ~IsInt(SizeField(fields)) THEN NoEffect(cur, D, F)
        ELSE LET filepath == RecPath(fields)
                 size == IntOf(SizeField(fields))
             IN  IF ~Kept(filepath, exts)
                 THEN IF ReadRaises(size)
                      THEN [NoEffect(cur, D, F) EXCEPT !.exc = "ValueError"]
                      ELSE [NoEffect(cur, D, F) EXCEPT !.cur = SkipCursor(data, cur, size)]
                 ELSE MkdirThenWrite(filepath, out, size, data, cur, D, F, ro, wfail)

\* Lines 97-117: one pass of the loop over one index line.
LineResult(line, exts, out, data, cur, D, F, ro, wfail) ==
    LET fields == Fields(line)
    IN  IF ~HasSizeField(fields) THEN [NoEffect(cur, D, F) EXCEPT !.exc = "IndexError"]
        ELSE IF ~IsInt(SizeField(fields)) THEN [NoEffect(cur, D, F) EXCEPT !.exc = "ValueError"]
        ELSE LET filepath == RecPath(fields)
                 size == IntOf(SizeField(fields))
             IN  IF ~Kept(filepath, exts)
                 THEN IF ReadRaises(size)
                      THEN [NoEffect(cur, D, F) EXCEPT !.exc = "ValueError"]
                      ELSE [NoEffect(cur, D, F) EXCEPT !.cur = SkipCursor(data, cur, size)]
                 ELSE MkdirThenWrite(filepath, out, size, data, cur, D, F, ro, wfail)

(***************************************************************************)
(* extract_cat as steps of the target t that called it.                    *)
(***************************************************************************)
\* A missing index that is logged and passed over instead of raised.
XMissingCatReturns(t) ==
    /\ xpc[t] = "call"
    /\ ~Exists(xcat[t])
    /\ xpc' = [xpc EXCEPT ![t] = "returned"]
    /\ UNCHANGED <<others, envVars, outVars, logs, xcat, xout, lineNo, cursor, xerr>>

\* Lines 84-85.
XMissingCat(t) ==
    /\ xpc[t] = "call"
    /\ ~Exists(xcat[t])
    /\ xpc' = [xpc EXCEPT ![t] = "raised"]
    /\ xerr' = [xerr EXCEPT ![t] = "FileNotFoundError"]
    /\ UNCHANGED <<others, envVars, outVars, logs, xcat, xout, lineNo, cursor>>

\* A missing data file that is raised like a missing index.
XMissingDatRaises(t) ==
    /\ xpc[t] = "call"
    /\ Exists(xcat[t])
    /\ ~Exists(DatOf(xcat[t]))
    /\ xpc' = [xpc EXCEPT ![t] = "raised"]
    /\ xerr' = [xerr EXCEPT ![t] = "FileNotFoundError"]
    /\ UNCHANGED <<others, envVars, outVars, logs, xcat, xout, lineNo, cursor>>

\* Lines 87-90.
XMissingDat(t) ==
    /\ xpc[t] = "call"
    /\ Exists(xcat[t])
    /\ ~Exists(DatOf(xcat[t]))
    /\ logs' = Append(logs, [lvl |-> "warning", msg |-> "no_dat", path |-> xcat[t]])
    /\ xpc' = [xpc EXCEPT ![t] = "returned"]
    /\ UNCHANGED <<others, envVars, outVars, xcat, xout, lineNo, cursor, xerr>>

\* Line 92: both files are opened, d_file at offset 0.
XOpen(t) ==
    /\ xpc[t] = "call"
    /\ Exists(xcat[t])
    /\ Exists(DatOf(xcat[t]))
    /\ xpc' = [xpc EXCEPT ![t] = "loop"]
    /\ lineNo' = [lineNo EXCEPT ![t] = 1]
    /\ cursor' = [cursor EXCEPT ![t] = 0]
    /\ UNCHANGED <<others, envVars, outVars, logs, xcat, xout, xerr>>

\* Lines 93-117: the next index line.
XLine(t) ==
    /\ xpc[t] = "loop"
    /\ lineNo[t] <= Len(src[xcat[t]])
    /\ \E wfail \in (IF diskErr THEN BOOLEAN ELSE {FALSE}) :
         LET r == LineResult(src[xcat[t]][lineNo[t]], extensions, xout[t],
                             src[DatOf(xcat[t])], cursor[t], dirs, files, roDirs, wfail)
         IN  /\ cursor' = [cursor EXCEPT ![t] = r.cur]
             /\ dirs' = r.dirs
             /\ files' = r.files
             /\ writes' = writes \o [i \in 1..Len(r.wrote) |->
                                       [t |-> t, cat |-> xcat[t], line |-> lineNo[t],
                                        path |-> r.wrote[i].path, at |-> r.wrote[i].at,
                                        bytes |-> r.wrote[i].bytes]]
             /\ logs' = logs \o r.log
             /\ IF r.exc = "none"
                THEN /\ lineNo' = [lineNo EXCEPT ![t] = @ + 1]
                     /\ UNCHANGED <<xpc, xerr>>
                ELSE /\ xpc' = [xpc EXCEPT ![t] = "raised"]
                     /\ xerr' = [xerr EXCEPT ![t] = r.exc]
                     /\ UNCHANGED lineNo
    /\ UNCHANGED <<others, envVars, xcat, xout>>

\* Line 119: the index is exhausted.
XReturn(t) ==
    /\ xpc[t] = "loop"
    /\ lineNo[t] > Len(src[xcat[t]])
    /\ xpc' = [xpc EXCEPT ![t] = "returned"]
    /\ UNCHANGED <<others, envVars, outVars, logs, xcat, xout, lineNo, cursor, xerr>>

ExtractCat(t) == XMissingCat(t) \/ XMissingDat(t) \/ XOpen(t) \/ XLine(t) \/ XReturn(t)

(***************************************************************************)
(* The parts of the state that a harness does not use.                     *)
(***************************************************************************)
NoCollect == cpc = "idle" /\ cres = <<>>

NoJobs ==
    /\ jpc = [t \in TargetNames |-> "none"]
    /\ jfiles = [t \in TargetNames |-> <<>>]
    /\ jout = [t \in TargetNames |-> OutRoot]
    /\ jidx = [t \in TargetNames |-> 0]
    /\ called = [t \in TargetNames |-> <<>>]
    /\ progress = [t \in TargetNames |-> <<>>]

NoMain ==
    /\ mpc = "idle"
    /\ merr = "none"
    /\ targets = <<>>
    /\ pending = <<>>
    /\ submitted = <<>>
    /\ awaited = {}

(***************************************************************************)
(* Spec: one call extract_cat(t.cat, OutRoot, extensions), as a test makes *)
(* it, over every index, data file, filter and state of the output tree    *)
(* within the bounds.                                                      *)
(***************************************************************************)
SrcPool ==
    {(TCat :> idx) @@ (DatOf(TCat) :> DataOf(n)) : idx \in SeqsUpTo(LinePool, MaxLines), n \in 0..MaxData}
    \cup {(TCat :> idx) : idx \in SeqsUpTo(LinePool, 1)}
    \cup {<<>>, (DatOf(TCat) :> DataOf(1))}

Init ==
    /\ src \in SrcPool
    /\ extensions \in FilterPool
    /\ roDirs \in {{}, {RoDir}}
    /\ diskErr \in BOOLEAN
    /\ dirs = {<<>>, OutRoot.parts} \cup roDirs
    /\ files = <<>>
    /\ writes = <<>>
    /\ logs = <<>>
    /\ xpc = [t \in TargetNames |-> IF t = Base THEN "call" ELSE "idle"]
    /\ xcat = [t \in TargetNames |-> TCat]
    /\ xout = [t \in TargetNames |-> OutRoot]
    /\ lineNo = [t \in TargetNames |-> 0]
    /\ cursor = [t \in TargetNames |-> 0]
    /\ xerr = [t \in TargetNames |-> "none"]
    /\ srcDirs = {<<>>}
    /\ include = <<>>
    /\ wantExp = FALSE
    /\ workers = 1
    /\ uiErr = {}
    /\ argTypes = <<>>
    /\ NoCollect
    /\ NoJobs
    /\ NoMain

Next ==
    \/ XMissingCat(Base)
    \/ XMissingDat(Base)
    \/ XOpen(Base)
    \/ XLine(Base)
    \/ XReturn(Base)

Spec == Init /\ [][Next]_vars

(***************************************************************************)
(* collect_files.                                                          *)
(***************************************************************************)
\* source_dir.glob("*.cat"): the entries whose name ends in .cat
GlobCat(dir) == {f \in DOMAIN src : f.dir = dir /\ EndsWith(f.name, DotCat)}

\* An enumeration that lets the signature files through.
AllFilesWithSig(dir) == GlobCat(dir)

\* Line 136: those whose stem does not end in _sig
AllFiles(dir) == {f \in GlobCat(dir) : ~EndsWith(NameStem(f.name), SigMark)}

\* The orders in which a directory listing may give the elements of S.
Orders(S) == {q \in [1..Cardinality(S) -> S] : \A i, j \in 1..Cardinality(S) : q[i] = q[j] => i = j}

\* Lines 141-144: the narrowing to the names asked for
ExtractFiles(all, inc) ==
    IF inc # <<>> THEN SelectSeq(all, LAMBDA f : f.name \in Range(inc)) ELSE all

\* collect_files(dir, inc) when the listing gives all_files in the order all.
CollectFiles(all, inc) ==
    IF all = <<>> THEN [exc |-> "FileNotFoundError", files |-> <<>>]
    ELSE [exc |-> "none", files |-> ExtractFiles(all, inc)]

\* A direct call collect_files(foundation_dir, include).
CollectCall ==
    /\ cpc = "call"
    /\ \E all \in Orders(AllFiles(<<>>)) :
         /\ cres' = CollectFiles(all, include)
         /\ cpc' = IF CollectFiles(all, include).exc = "none" THEN "returned" ELSE "raised"
    /\ UNCHANGED <<envVars, outVars, logs, xVars, jVars, mVars>>

(***************************************************************************)
(* SpecCollect: one call collect_files(foundation_dir, include) over every *)
(* directory content and list of names drawn from the pools.               *)
(***************************************************************************)
NameA == <<"a">> \o DotCat
NameB == <<"b">> \o DotCat
NameASig == <<"a">> \o SigMark \o DotCat
NameSig == SigMark \o DotCat
NameADat == <<"a">> \o DotDat
NameCatTxt == <<"c", "a", "t", ".", "t">>
NameMissing == <<"n">> \o DotCat

NamePool == {NameA, NameB, NameASig, NameSig, NameADat, NameCatTxt}

IncludePool == {<<>>, <<NameB>>, <<NameMissing>>, <<NameA, NameMissing>>, <<NameASig>>}

InitCollect ==
    /\ \E names \in SUBSET NamePool : src = [f \in {[dir |-> <<>>, name |-> n] : n \in names} |-> <<>>]
    /\ include \in IncludePool
    /\ extensions = << <<"x">> >>
    /\ roDirs = {}
    /\ diskErr = FALSE
    /\ srcDirs = {<<>>}
    /\ wantExp = FALSE
    /\ workers = 1
    /\ uiErr = {}
    /\ argTypes = <<>>
    /\ dirs = {<<>>, OutRoot.parts}
    /\ files = <<>>
    /\ writes = <<>>
    /\ logs = <<>>
    /\ xpc = [t \in TargetNames |-> "idle"]
    /\ xcat = [t \in TargetNames |-> TCat]
    /\ xout = [t \in TargetNames |-> OutRoot]
    /\ lineNo = [t \in TargetNames |-> 0]
    /\ cursor = [t \in TargetNames |-> 0]
    /\ xerr = [t \in TargetNames |-> "none"]
    /\ cpc = "call"
    /\ cres = <<>>
    /\ NoJobs
    /\ NoMain

NextCollect == CollectCall

SpecCollect == InitCollect /\ [][NextCollect]_vars

(***************************************************************************)
(* extraction_job, as steps of the worker thread that runs target t.       *)
(***************************************************************************)
Running == {u \in TargetNames : jpc[u] = "running"}

\* The executor's queue is first in, first out.
FirstQueued(t) ==
    \E i \in 1..Len(submitted) :
        /\ submitted[i] = t
        /\ jpc[t] = "queued"
        /\ \A j \in 1..(i - 1) : jpc[submitted[j]] # "queued"

\* Lines 160-167: a free worker takes the job; the progress task is added.
JStart(t) ==
    /\ FirstQueued(t)
    /\ Cardinality(Running) < workers
    /\ jpc' = [jpc EXCEPT ![t] = "running"]
    /\ jidx' = [jidx EXCEPT ![t] = 1]
    /\ progress' = [progress EXCEPT ![t] = Append(@, [op |-> "add_task", total |-> Len(jfiles[t])])]
    /\ UNCHANGED <<envVars, outVars, logs, xVars, cVars, mVars, jfiles, jout, called>>

\* Lines 168-170: extract_cat is called with the next file.
JCall(t) ==
    /\ jpc[t] = "running"
    /\ xpc[t] = "idle"
    /\ jidx[t] <= Len(jfiles[t])
    /\ xpc' = [xpc EXCEPT ![t] = "call"]
    /\ xcat' = [xcat EXCEPT ![t] = jfiles[t][jidx[t]]]
    /\ xout' = [xout EXCEPT ![t] = jout[t]]
    /\ xerr' = [xerr EXCEPT ![t] = "none"]
    /\ called' = [called EXCEPT ![t] = Append(@, jfiles[t][jidx[t]])]
    /\ UNCHANGED <<envVars, outVars, logs, cVars, mVars, lineNo, cursor, jpc, jfiles, jout, jidx, progress>>

\* What the except clause of lines 171-172 logs.
CaughtLog(t) ==
    IF xpc[t] = "raised"
    THEN Append(logs, [lvl |-> "error", msg |-> "extract_error", path |-> xcat[t]])
    ELSE logs

\* A job that lets the exception of extract_cat through.
JAfterPropagates(t) ==
    /\ jpc[t] = "running"
    /\ xpc[t] \in {"returned", "raised"}
    /\ t \notin uiErr
    /\ xpc' = [xpc EXCEPT ![t] = "idle"]
    /\ IF xpc[t] = "raised"
       THEN /\ jpc' = [jpc EXCEPT ![t] = "failed"]
            /\ UNCHANGED <<progress, jidx>>
       ELSE /\ progress' = [progress EXCEPT ![t] = Append(@, [op |-> "advance", file |-> xcat[t].name])]
            /\ jidx' = [jidx EXCEPT ![t] = @ + 1]
            /\ UNCHANGED jpc
    /\ UNCHANGED <<envVars, outVars, logs, cVars, mVars, xcat, xout, lineNo, cursor, xerr, jfiles, jout, called>>

\* A job that advances the progress display inside the try: only for a file whose
\* extraction returned.
JAfterAdvancesOnSuccess(t) ==
    /\ jpc[t] = "running"
    /\ xpc[t] \in {"returned", "raised"}
    /\ t \notin uiErr
    /\ logs' = CaughtLog(t)
    /\ progress' = [progress EXCEPT ![t] =
                       IF xpc[t] = "raised" THEN @
                       ELSE Append(@, [op |-> "advance", file |-> xcat[t].name])]
    /\ jidx' = [jidx EXCEPT ![t] = @ + 1]
    /\ xpc' = [xpc EXCEPT ![t] = "idle"]
    /\ UNCHANGED <<envVars, outVars, cVars, mVars, xcat, xout, lineNo, cursor, xerr, jpc, jfiles, jout, called>>

\* Lines 171-173: extract_cat has returned or raised; an exception is logged, and
\* the progress display advances by one.
JAfter(t) ==
    /\ jpc[t] = "running"
    /\ xpc[t] \in {"returned", "raised"}
    /\ t \notin uiErr
    /\ logs' = CaughtLog(t)
    /\ progress' = [progress EXCEPT ![t] = Append(@, [op |-> "advance", file |-> xcat[t].name])]
    /\ jidx' = [jidx EXCEPT ![t] = @ + 1]
    /\ xpc' = [xpc EXCEPT ![t] = "idle"]
    /\ UNCHANGED <<envVars, outVars, cVars, mVars, xcat, xout, lineNo, cursor, xerr, jpc, jfiles, jout, called>>

\* Line 173 when progress.update itself raises: nothing in extraction_job catches
\* it, the job ends with the exception.
JAfterRaises(t) ==
    /\ jpc[t] = "running"
    /\ xpc[t] \in {"returned", "raised"}
    /\ t \in uiErr
    /\ logs' = CaughtLog(t)
    /\ jpc' = [jpc EXCEPT ![t] = "failed"]
    /\ xpc' = [xpc EXCEPT ![t] = "idle"]
    /\ UNCHANGED <<envVars, outVars, cVars, mVars, xcat, xout, lineNo, cursor, xerr, jfiles, jout, jidx, called, progress>>

\* The loop of line 168 is exhausted: the job returns.
JDone(t) ==
    /\ jpc[t] = "running"
    /\ xpc[t] = "idle"
    /\ jidx[t] > Len(jfiles[t])
    /\ jpc' = [jpc EXCEPT ![t] = "done"]
    /\ UNCHANGED <<envVars, outVars, logs, xVars, cVars, mVars, jfiles, jout, jidx, called, progress>>

(***************************************************************************)
(* SpecJob: one call extraction_job("base", files, OutRoot, extensions)    *)
(* over every list of up to MaxFiles different cat files of a directory    *)
(* that holds good pairs, an index without data, an index with a short     *)
(* line and an index whose record cannot get its directory; one listed     *)
(* file does not exist.                                                    *)
(***************************************************************************)
LineShort == <<"a", ".", "x", " ", "1", "\n">>

CatNamed(c) == [dir |-> <<>>, name |-> <<c>> \o DotCat]

JobSrc ==
    (CatNamed("1") :> <<LineAx>>) @@ (DatOf(CatNamed("1")) :> DataOf(1))
    @@ (CatNamed("2") :> <<LineBy, LineDCx>>) @@ (DatOf(CatNamed("2")) :> DataOf(4))
    @@ (CatNamed("3") :> <<LineAx>>)
    @@ (CatNamed("4") :> <<LineShort>>) @@ (DatOf(CatNamed("4")) :> DataOf(1))
    @@ (CatNamed("6") :> <<LineAxGx>>) @@ (DatOf(CatNamed("6")) :> DataOf(1))

JobCats == {CatNamed(c) : c \in {"1", "2", "3", "4", "5", "6"}}

JobFileLists ==
    {q \in SeqsUpTo(JobCats, MaxFiles) : \A i, j \in 1..Len(q) : q[i] = q[j] => i = j}

InitJob ==
    /\ src = JobSrc
    /\ extensions = << <<"x">> >>
    /\ roDirs = {}
    /\ diskErr = FALSE
    /\ srcDirs = {<<>>}
    /\ include = <<>>
    /\ wantExp = FALSE
    /\ workers = 1
    /\ uiErr \in {{}, {Base}}
    /\ argTypes = <<>>
    /\ dirs = {<<>>, OutRoot.parts}
    /\ files = <<>>
    /\ writes = <<>>
    /\ logs = <<>>
    /\ xpc = [t \in TargetNames |-> "idle"]
    /\ xcat = [t \in TargetNames |-> TCat]
    /\ xout = [t \in TargetNames |-> OutRoot]
    /\ lineNo = [t \in TargetNames |-> 0]
    /\ cursor = [t \in TargetNames |-> 0]
    /\ xerr = [t \in TargetNames |-> "none"]
    /\ NoCollect
    /\ jpc = [t \in TargetNames |-> IF t = Base THEN "queued" ELSE "none"]
    /\ \E fl \in JobFileLists : jfiles = [t \in TargetNames |-> IF t = Base THEN fl ELSE <<>>]
    /\ jout = [t \in TargetNames |-> OutRoot]
    /\ jidx = [t \in TargetNames |-> 0]
    /\ called = [t \in TargetNames |-> <<>>]
    /\ progress = [t \in TargetNames |-> <<>>]
    /\ mpc = "idle"
    /\ merr = "none"
    /\ targets = <<>>
    /\ pending = <<>>
    /\ submitted = <<Base>>
    /\ awaited = {}

NextJob ==
    \/ JStart(Base)
    \/ JCall(Base)
    \/ XMissingCat(Base)
    \/ XMissingDat(Base)
    \/ XOpen(Base)
    \/ XLine(Base)
    \/ XReturn(Base)
    \/ JAfter(Base)
    \/ JAfterRaises(Base)
    \/ JDone(Base)

SpecJob == InitJob /\ [][NextJob]_vars

(***************************************************************************)
(* main.                                                                   *)
(***************************************************************************)
ExtensionsDir == <<ExtensionsName>>

\* Lines 208-211: the directories of extensions_dir whose name starts with ego_dlc_
OfficialExpansions ==
    {d[2] : d \in {e \in srcDirs : Len(e) = 2 /\ e[1] = ExtensionsName /\ StartsWith(e[2], DlcPrefix)}}

\* Line 235: output_dir of a target
OutputDir(t) == IF t = Base THEN OutRoot ELSE PathJoin(OutRoot, [abs |-> FALSE, parts |-> <<t>>])

PathExists(p) == p \in dirs \/ p \in DOMAIN files

\* Lines 199-201: the base target is collected; an exception of collect_files
\* leaves main.
MBase ==
    /\ mpc = "start"
    /\ \E all \in Orders(AllFiles(<<>>)) :
         LET r == CollectFiles(all, include)
         IN  IF r.exc # "none"
             THEN /\ mpc' = "raised"
                  /\ merr' = r.exc
                  /\ UNCHANGED targets
             ELSE /\ targets' = << [name |-> Base, files |-> r.files] >>
                  /\ mpc' = IF wantExp THEN "discover" ELSE "dispatch"
                  /\ UNCHANGED merr
    /\ UNCHANGED <<envVars, outVars, logs, xVars, cVars, jVars, pending, submitted, awaited>>

\* Lines 203-216: the expansion directories are listed; without an extensions
\* directory a warning is logged and main returns.
MDiscover ==
    /\ mpc = "discover"
    /\ IF ExtensionsDir \in srcDirs
       THEN /\ \E order \in Orders(OfficialExpansions) :
                 /\ pending' = order
                 /\ mpc' = IF order = <<>> THEN "dispatch" ELSE "expand"
            /\ UNCHANGED logs
       ELSE /\ logs' = Append(logs, [lvl |-> "warning", msg |-> "no_expansions_dir", path |-> ExtensionsDir])
            /\ pending' = <<>>
            /\ mpc' = "returned"
    /\ UNCHANGED <<envVars, outVars, xVars, cVars, jVars, merr, targets, submitted, awaited>>

\* A loop over the expansions that passes over a name EXPANSIONS does not know.
MExpansionSkipsUnknown ==
    /\ mpc = "expand"
    /\ pending # <<>>
    /\ LET name == Head(pending)
           outdir == OutputDir(name).parts
           made == IF PathExists(outdir) THEN dirs ELSE MkdirParents(dirs, outdir)
       IN  IF name \notin EXPANSIONS
           THEN /\ pending' = Tail(pending)
                /\ mpc' = IF Tail(pending) = <<>> THEN "dispatch" ELSE "expand"
                /\ UNCHANGED <<dirs, targets, merr>>
           ELSE IF ~PathExists(outdir) /\ MkdirError(dirs, files, roDirs, outdir) # "none"
           THEN /\ mpc' = "raised"
                /\ merr' = MkdirError(dirs, files, roDirs, outdir)
                /\ UNCHANGED <<dirs, targets, pending>>
           ELSE \E all \in Orders(AllFiles(<<ExtensionsName, name>>)) :
                   LET r == CollectFiles(all, include)
                   IN  /\ dirs' = made
                       /\ IF r.exc # "none"
                          THEN /\ mpc' = "raised"
                               /\ merr' = r.exc
                               /\ UNCHANGED <<targets, pending>>
                          ELSE /\ targets' = Append(targets, [name |-> name, files |-> r.files])
                               /\ pending' = Tail(pending)
                               /\ mpc' = IF Tail(pending) = <<>> THEN "dispatch" ELSE "expand"
                               /\ UNCHANGED merr
    /\ UNCHANGED <<envVars, files, writes, logs, xVars, cVars, jVars, submitted, awaited>>

\* Lines 218-223 for one expansion: the lookup of its display name, the creation
\* of its output directory, the collection of its cat files.
MExpansion ==
    /\ mpc = "expand"
    /\ pending # <<>>
    /\ LET name == Head(pending)
           outdir == OutputDir(name).parts
           made == IF PathExists(outdir) THEN dirs ELSE MkdirParents(dirs, outdir)
       IN  IF name \notin EXPANSIONS
           THEN /\ mpc' = "raised"
                /\ merr' = "KeyError"
                /\ UNCHANGED <<dirs, targets, pending>>
           ELSE IF ~PathExists(outdir) /\ MkdirError(dirs, files, roDirs, outdir) # "none"
           THEN /\ mpc' = "raised"
                /\ merr' = MkdirError(dirs, files, roDirs, outdir)
                /\ UNCHANGED <<dirs, targets, pending>>
           ELSE \E all \in Orders(AllFiles(<<ExtensionsName, name>>)) :
                   LET r == CollectFiles(all, include)
                   IN  /\ dirs' = made
                       /\ IF r.exc # "none"
                          THEN /\ mpc' = "raised"
                               /\ merr' = r.exc
                               /\ UNCHANGED <<targets, pending>>
                          ELSE /\ targets' = Append(targets, [name |-> name, files |-> r.files])
                               /\ pending' = Tail(pending)
                               /\ mpc' = IF Tail(pending) = <<>> THEN "dispatch" ELSE "expand"
                               /\ UNCHANGED merr
    /\ UNCHANGED <<envVars, files, writes, logs, xVars, cVars, jVars, submitted, awaited>>

\* Lines 233-244: the next target's job is submitted to the executor.
MSubmit ==
    /\ mpc = "dispatch"
    /\ LET k == Len(submitted) + 1
           t == targets[k].name
       IN  /\ jpc' = [jpc EXCEPT ![t] = "queued"]
           /\ jfiles' = [jfiles EXCEPT ![t] = targets[k].files]
           /\ jout' = [jout EXCEPT ![t] = OutputDir(t)]
           /\ submitted' = Append(submitted, t)
           /\ mpc' = IF k = Len(targets) THEN "await" ELSE "dispatch"
    /\ UNCHANGED <<envVars, outVars, logs, xVars, cVars, jidx, called, progress, merr, targets, pending, awaited>>

\* A wait that lets the exception of a job through.
MResultPropagates ==
    /\ mpc = "await"
    /\ \E t \in Range(submitted) \ awaited :
         /\ jpc[t] \in {"done", "failed"}
         /\ awaited' = awaited \cup {t}
         /\ IF jpc[t] = "failed"
            THEN mpc' = "raised" /\ merr' = "JobError"
            ELSE UNCHANGED <<mpc, merr>>
    /\ UNCHANGED <<envVars, outVars, logs, xVars, cVars, jVars, targets, pending, submitted>>

\* Lines 246-250: as_completed gives a finished future; the exception of a failed
\* job is logged.
MResult ==
    /\ mpc = "await"
    /\ \E t \in Range(submitted) \ awaited :
         /\ jpc[t] \in {"done", "failed"}
         /\ awaited' = awaited \cup {t}
         /\ logs' = IF jpc[t] = "failed"
                    THEN Append(logs, [lvl |-> "error", msg |-> "job_failed", path |-> t])
                    ELSE logs
    /\ UNCHANGED <<envVars, outVars, xVars, cVars, jVars, mpc, merr, targets, pending, submitted>>

\* Lines 246-250: as_completed is exhausted, the executor is shut down, main returns.
MReturn ==
    /\ mpc = "await"
    /\ awaited = Range(submitted)
    /\ mpc' = "returned"
    /\ UNCHANGED <<envVars, outVars, logs, xVars, cVars, jVars, merr, targets, pending, submitted, awaited>>

(***************************************************************************)
(* SpecMain: one call main(foundation_dir, OutRoot, expansions, ['x'],     *)
(* include) over source trees with or without cat files in                 *)
(* foundation_dir, with or without an extensions directory, and with       *)
(* expansion directories that are known, unknown, without the prefix, or   *)
(* without cat files; the jobs run on workers threads, interleaved.        *)
(***************************************************************************)
MaxWorkers == 2

ExpDir(n) == <<ExtensionsName, n>>

ExpCat(n) == [dir |-> ExpDir(n), name |-> <<"1">> \o DotCat]

\* foundation_dir/1.cat holds a.x; ego_dlc_boron/1.cat holds d/c.x; ego_dlc_split
\* has an index without a data file.
MainFiles(baseHas, exps, splitHas) ==
    [f \in (IF baseHas THEN {CatNamed("1"), DatOf(CatNamed("1"))} ELSE {})
           \cup (IF DlcBoron \in exps THEN {ExpCat(DlcBoron), DatOf(ExpCat(DlcBoron))} ELSE {})
           \cup (IF DlcSplit \in exps /\ splitHas THEN {ExpCat(DlcSplit)} ELSE {})
           \cup (IF Unknown \in exps THEN {ExpCat(Unknown)} ELSE {})
     |-> IF f = CatNamed("1") THEN <<LineAx>>
         ELSE IF f = ExpCat(DlcBoron) THEN <<LineDCx>>
         ELSE IF f \in {ExpCat(DlcSplit), ExpCat(Unknown)} THEN <<LineAx>>
         ELSE DataOf(2)]

ExpSetPool == {{}, {DlcBoron}, {DlcBoron, DlcSplit}, {DlcBoron, Unknown}, {ModDir, DlcBoron}}

InitMain ==
    /\ \E baseHas, splitHas, extDir \in BOOLEAN, exps \in ExpSetPool :
         /\ (~extDir => exps = {})
         /\ (DlcSplit \notin exps => splitHas)
         /\ src = MainFiles(baseHas, exps, splitHas)
         /\ srcDirs = {<<>>} \cup (IF extDir THEN {ExtensionsDir} ELSE {}) \cup {ExpDir(n) : n \in exps}
    /\ extensions = << <<"x">> >>
    /\ roDirs = {}
    /\ diskErr = FALSE
    /\ include \in {<<>>, <<NameMissing>>}
    /\ wantExp \in BOOLEAN
    /\ workers \in 1..MaxWorkers
    /\ uiErr \in {{}, {Base}, {DlcBoron}}
    /\ argTypes = <<>>
    /\ dirs = {<<>>, OutRoot.parts}
    /\ files = <<>>
    /\ writes = <<>>
    /\ logs = <<>>
    /\ xpc = [t \in TargetNames |-> "idle"]
    /\ xcat = [t \in TargetNames |-> TCat]
    /\ xout = [t \in TargetNames |-> OutRoot]
    /\ lineNo = [t \in TargetNames |-> 0]
    /\ cursor = [t \in TargetNames |-> 0]
    /\ xerr = [t \in TargetNames |-> "none"]
    /\ NoCollect
    /\ NoJobs
    /\ mpc = "start"
    /\ merr = "none"
    /\ targets = <<>>
    /\ pending = <<>>
    /\ submitted = <<>>
    /\ awaited = {}

\* The steps of the worker threads. (The files of a job come from a listing, so
\* every index file exists.)
JobStep(t) ==
    \/ JStart(t)
    \/ JCall(t)
    \/ XMissingDat(t)
    \/ XOpen(t)
    \/ XLine(t)
    \/ XReturn(t)
    \/ JAfter(t)
    \/ JAfterRaises(t)
    \/ JDone(t)

NextMain ==
    \/ MBase
    \/ MDiscover
    \/ MExpansion
    \/ MSubmit
    \/ MResult
    \/ MReturn
    \/ \E t \in TargetNames : JobStep(t)

SpecMain == InitMain /\ [][NextMain]_vars

(***************************************************************************)
(* The start of the program: the __main__ block.                           *)
(***************************************************************************)
ExtXml == <<"x", "m", "l">>
ExtXsd == <<"x", "s", "d">>
ExtHtml == <<"h", "t", "m", "l">>
ExtJs == <<"j", "s">>
ExtCss == <<"c", "s", "s">>
ExtLua == <<"l", "u", "a">>

\* The extensions the help text of -t names.
DefaultExtensions == {ExtXml, ExtXsd, ExtHtml, ExtJs, ExtCss, ExtLua}

\* Line 59: default="xml, xsd, html, js, css, lua"
DefaultTypes ==
    ExtXml \o <<",", " ">> \o ExtXsd \o <<",", " ">> \o ExtHtml \o <<",", " ">>
    \o ExtJs \o <<",", " ">> \o ExtCss \o <<",", " ">> \o ExtLua

\* Line 264: file_types = args.types.split(",")
FileTypes(types) == Split(types, ",")

\* Lines 254-284 when -i is not given: the source directory must exist, the types
\* are split, the target directory is made, and main is called.
StartUp ==
    /\ mpc = "idle"
    /\ IF <<>> \notin srcDirs
       THEN /\ logs' = Append(logs, [lvl |-> "error", msg |-> "no_source_dir", path |-> <<>>])
            /\ mpc' = "exited"
            /\ UNCHANGED <<extensions, include, dirs>>
       ELSE IF FileTypes(argTypes) = <<>>
       THEN /\ logs' = Append(logs, [lvl |-> "error", msg |-> "no_types", path |-> <<>>])
            /\ mpc' = "exited"
            /\ UNCHANGED <<extensions, include, dirs>>
       ELSE /\ extensions' = FileTypes(argTypes)
            /\ dirs' = IF PathExists(OutRoot.parts) THEN dirs ELSE MkdirParents(dirs, OutRoot.parts)
            /\ include' = <<>>
            /\ mpc' = "start"
            /\ UNCHANGED logs
    /\ UNCHANGED <<src, roDirs, diskErr, srcDirs, wantExp, workers, uiErr, argTypes>>
    /\ UNCHANGED <<files, writes, xVars, cVars, jVars, merr, targets, pending, submitted, awaited>>

(***************************************************************************)
(* SpecCli: the program is started as xtract.py src o [-t types], without  *)
(* -e and -i, on a source directory whose 1.cat lists records with the     *)
(* extensions the help text names.                                         *)
(***************************************************************************)
LineOfExt(ext) == <<"a", ".">> \o ext \o Meta \o <<"1">> \o Trail

ExtLines == {LineOfExt(e) : e \in DefaultExtensions}

TypesPool ==
    {DefaultTypes, ExtXml, ExtXml \o <<",">> \o ExtLua, ExtJs \o <<",", " ">> \o ExtCss, <<>>}

InitCli ==
    /\ argTypes \in TypesPool
    /\ \E idx \in SeqsUpTo(ExtLines, MaxLines), there, dat, boron \in BOOLEAN :
         /\ (~there => idx = <<>> /\ ~dat /\ ~boron)
         /\ src = (IF there THEN (CatNamed("1") :> idx) ELSE <<>>)
                  @@ (IF dat THEN (DatOf(CatNamed("1")) :> DataOf(MaxLines)) ELSE <<>>)
                  @@ (IF boron
                      THEN (ExpCat(DlcBoron) :> <<LineOfExt(ExtXml)>>) @@ (DatOf(ExpCat(DlcBoron)) :> DataOf(1))
                      ELSE <<>>)
         /\ srcDirs = (IF there THEN {<<>>} ELSE {})
                      \cup (IF boron THEN {ExtensionsDir, ExpDir(DlcBoron)} ELSE {})
         /\ wantExp = boron
    /\ dirs \in {{<<>>}, {<<>>, OutRoot.parts}}
    /\ extensions = <<>>
    /\ include = <<>>
    /\ roDirs = {}
    /\ diskErr = FALSE
    /\ workers = 1
    /\ uiErr \in {{}, {Base}}
    /\ files = <<>>
    /\ writes = <<>>
    /\ logs = <<>>
    /\ xpc = [t \in TargetNames |-> "idle"]
    /\ xcat = [t \in TargetNames |-> TCat]
    /\ xout = [t \in TargetNames |-> OutRoot]
    /\ lineNo = [t \in TargetNames |-> 0]
    /\ cursor = [t \in TargetNames |-> 0]
    /\ xerr = [t \in TargetNames |-> "none"]
    /\ NoCollect
    /\ NoJobs
    /\ NoMain

NextCli ==
    \/ StartUp
    \/ NextMain

SpecCli == InitCli /\ [][NextCli]_vars

(***************************************************************************)
(* SpecOverlap: one call main(foundation_dir, OutRoot, True, ['x'], [])    *)
(* on a source tree whose base index may name a record below a directory   *)
(* called like an expansion, so that the output directory of the base      *)
(* target holds the output directory of the expansion target.              *)
(***************************************************************************)
\* ego_dlc_boron/c.x, one byte, in the base index; c.x, two bytes, in the index of
\* the expansion.
LineBoronCx == DlcBoron \o <<"/", "c", ".", "x">> \o Meta \o <<"1">> \o Trail
LineCx == <<"c", ".", "x">> \o Meta \o <<"2">> \o Trail

BaseIndexPool == {<<LineAx>>, <<LineBoronCx>>, <<LineAx, LineBoronCx>>}

InitOverlap ==
    /\ \E idx \in BaseIndexPool, split \in BOOLEAN :
         /\ src = (CatNamed("1") :> idx) @@ (DatOf(CatNamed("1")) :> DataOf(2))
                  @@ (ExpCat(DlcBoron) :> <<LineCx>>) @@ (DatOf(ExpCat(DlcBoron)) :> DataOf(2))
                  @@ (IF split THEN (ExpCat(DlcSplit) :> <<LineAx>>) ELSE <<>>)
         /\ srcDirs = {<<>>, ExtensionsDir, ExpDir(DlcBoron)} \cup (IF split THEN {ExpDir(DlcSplit)} ELSE {})
    /\ extensions = << <<"x">> >>
    /\ roDirs = {}
    /\ diskErr = FALSE
    /\ include = <<>>
    /\ wantExp = TRUE
    /\ workers \in 1..MaxWorkers
    /\ uiErr \in {{}, {DlcBoron}}
    /\ argTypes = <<>>
    /\ dirs = {<<>>, OutRoot.parts}
    /\ files = <<>>
    /\ writes = <<>>
    /\ logs = <<>>
    /\ xpc = [t \in TargetNames |-> "idle"]
    /\ xcat = [t \in TargetNames |-> TCat]
    /\ xout = [t \in TargetNames |-> OutRoot]
    /\ lineNo = [t \in TargetNames |-> 0]
    /\ cursor = [t \in TargetNames |-> 0]
    /\ xerr = [t \in TargetNames |-> "none"]
    /\ NoCollect
    /\ NoJobs
    /\ mpc = "start"
    /\ merr = "none"
    /\ targets = <<>>
    /\ pending = <<>>
    /\ submitted = <<>>
    /\ awaited = {}

SpecOverlap == InitOverlap /\ [][NextMain]_vars

(***************************************************************************)
(* The calls as functions of their inputs: what extract_cat,               *)
(* extraction_job and main leave in the output tree when nothing else runs *)
(* between their steps and no write fails.  A tree is [dirs, files].       *)
(***************************************************************************)
\* Lines 93-117 from line k of the index on, the data file at cur.
RECURSIVE LinesTree(_, _, _, _, _, _, _, _, _)
LinesTree(lines, k, exts, out, data, cur, D, F, ro) ==
    IF k > Len(lines) THEN [dirs |-> D, files |-> F]
    ELSE LET r == LineResult(lines[k], exts, out, data, cur, D, F, ro, FALSE)
         IN  IF r.exc # "none" THEN [dirs |-> r.dirs, files |-> r.files]
             ELSE LinesTree(lines, k + 1, exts, out, data, r.cur, r.dirs, r.files, ro)

\* extract_cat(cat, out, exts) on the tree [D, F].
ExtractCatTree(cat, out, exts, D, F, ro) ==
    IF ~Exists(cat) \/ ~Exists(DatOf(cat)) THEN [dirs |-> D, files |-> F]
    ELSE LinesTree(src[cat], 1, exts, out, src[DatOf(cat)], 0, D, F, ro)

\* extraction_job(t, fl, out, exts) from file k of the list on; a progress display
\* that raises ends the job after its first file.
RECURSIVE JobTree(_, _, _, _, _, _, _, _, _)
JobTree(fl, k, out, exts, D, F, ro, ui, t) ==
    IF k > Len(fl) THEN [dirs |-> D, files |-> F]
    ELSE LET r == ExtractCatTree(fl[k], out, exts, D, F, ro)
         IN  IF t \in ui THEN r
             ELSE JobTree(fl, k + 1, out, exts, r.dirs, r.files, ro, ui, t)

\* The jobs of the targets tg, one after the other, from target k on.
RECURSIVE TargetsTree(_, _, _, _)
TargetsTree(tg, k, D, F) ==
    IF k > Len(tg) THEN [dirs |-> D, files |-> F]
    ELSE LET r == JobTree(tg[k].files, 1, OutputDir(tg[k].name), extensions, D, F, roDirs, uiErr, tg[k].name)
         IN  TargetsTree(tg, k + 1, r.dirs, r.files)

(***************************************************************************)
(* SpecRecords: one call extraction_job("base", files, OutRoot, ['x']) on  *)
(* 1.cat and 2.cat, where 1.cat holds up to MaxLines lines drawn from good *)
(* records, lines without a length, blank lines, negative lengths and an   *)
(* absolute record path, and 2.cat holds a record that 1.cat may hold too; *)
(* 3.cat has no data file and 5.cat does not exist.                        *)
(***************************************************************************)
LineNaN == <<"a", ".", "x">> \o Meta \o <<"q">> \o Trail
LineBlank == <<"\n">>
LineSpaces == <<" ", "\n">>
LineNegAll == <<"c", ".", "x">> \o Meta \o <<"-", "1">> \o Trail
LineNegSkip == <<"b", ".", "y">> \o Meta \o <<"-", "1">> \o Trail
LineNegTwo == <<"c", ".", "x">> \o Meta \o <<"-", "2">> \o Trail
LineAbs == <<"/", "e", ".", "x">> \o Meta \o <<"1">> \o Trail
LineAxTwo == <<"a", ".", "x">> \o Meta \o <<"2">> \o Trail

RecordPool ==
    {LineAx, LineBy, LineShort, LineNaN, LineBlank, LineSpaces,
     LineNegAll, LineNegSkip, LineNegTwo, LineAbs}

RecordFileLists ==
    { <<CatNamed("1"), CatNamed("2")>>, <<CatNamed("2"), CatNamed("1")>>,
      <<CatNamed("5"), CatNamed("3"), CatNamed("1")>> }

InitRecords ==
    /\ \E idx \in SeqsUpTo(RecordPool, MaxLines) :
         src = (CatNamed("1") :> idx) @@ (DatOf(CatNamed("1")) :> DataOf(MaxData))
               @@ (CatNamed("2") :> <<LineAxTwo>>) @@ (DatOf(CatNamed("2")) :> DataOf(MaxData))
               @@ (CatNamed("3") :> <<LineAx>>)
    /\ extensions = << <<"x">> >>
    /\ roDirs = {}
    /\ diskErr = FALSE
    /\ srcDirs = {<<>>}
    /\ include = <<>>
    /\ wantExp = FALSE
    /\ workers = 1
    /\ uiErr \in {{}, {Base}}
    /\ argTypes = <<>>
    /\ dirs = {<<>>, OutRoot.parts}
    /\ files = <<>>
    /\ writes = <<>>
    /\ logs = <<>>
    /\ xpc = [t \in TargetNames |-> "idle"]
    /\ xcat = [t \in TargetNames |-> TCat]
    /\ xout = [t \in TargetNames |-> OutRoot]
    /\ lineNo = [t \in TargetNames |-> 0]
    /\ cursor = [t \in TargetNames |-> 0]
    /\ xerr = [t \in TargetNames |-> "none"]
    /\ NoCollect
    /\ jpc = [t \in TargetNames |-> IF t = Base THEN "queued" ELSE "none"]
    /\ \E fl \in RecordFileLists : jfiles = [t \in TargetNames |-> IF t = Base THEN fl ELSE <<>>]
    /\ jout = [t \in TargetNames |-> OutRoot]
    /\ jidx = [t \in TargetNames |-> 0]
    /\ called = [t \in TargetNames |-> <<>>]
    /\ progress = [t \in TargetNames |-> <<>>]
    /\ mpc = "idle"
    /\ merr = "none"
    /\ targets = <<>>
    /\ pending = <<>>
    /\ submitted = <<Base>>
    /\ awaited = {}

SpecRecords == InitRecords /\ [][NextJob]_vars

(***************************************************************************)
(* What the claims speak of.                                               *)
(***************************************************************************)
\* The declared byte length of index line i, and the sum over the first k lines.
DeclaredSize(idx, i) == IntOf(SizeField(Fields(idx[i])))

RECURSIVE SumSizes(_, _)
SumSizes(idx, k) == IF k = 0 THEN 0 ELSE SumSizes(idx, k - 1) + DeclaredSize(idx, k)

\* Whether the extension of line i's path is one of the filter's.
InFilter(idx, i) == Kept(RecPath(Fields(idx[i])), extensions)

\* The bytes of data at offsets off .. off + size - 1, as far as data goes.
Slice(data, off, size) ==
    [k \in 1..(Min(off + size, Len(data)) - Min(off, Len(data))) |-> data[Min(off, Len(data)) + k]]

InitialDirs == {<<>>, OutRoot.parts} \cup roDirs

Finished(t) == xpc[t] \in {"returned", "raised"}

\* C1: for an index/data pair whose data length is the sum of the records' byte
\* lengths, every write of extract_cat is the write of a record whose extension is
\* in the filter, to that record's path under the output root, of exactly that
\* record's payload range of the data file; and no file exists for another record.
C1_ExactPayloads ==
    \A i \in 1..Len(writes) :
        LET w == writes[i]
            idx == src[w.cat]
            data == src[DatOf(w.cat)]
            off == SumSizes(idx, w.line - 1)
        IN  Len(data) = SumSizes(idx, Len(idx)) =>
                /\ InFilter(idx, w.line)
                /\ w.path = xout[w.t].parts \o RecPath(Fields(idx[w.line])).parts
                /\ w.bytes = SubSeq(data, off + 1, off + DeclaredSize(idx, w.line))

\* C2: a record whose extension is not in the filter moves the data cursor by its
\* declared byte length (as far as the data goes): while only skipped records have
\* been passed the cursor is at the sum of their lengths, and a kept record that
\* follows only skipped records is written with the bytes at that offset.
OnlySkippedBefore(idx, k) == \A j \in 1..(k - 1) : ~InFilter(idx, j)

C2_SkipAdvancesCursor ==
    /\ \A t \in TargetNames :
          (xpc[t] = "loop" /\ OnlySkippedBefore(src[xcat[t]], lineNo[t])) =>
              cursor[t] = Min(SumSizes(src[xcat[t]], lineNo[t] - 1), Len(src[DatOf(xcat[t])]))
    /\ \A i \in 1..Len(writes) :
          LET w == writes[i]
              idx == src[w.cat]
          IN  OnlySkippedBefore(idx, w.line) =>
                  w.bytes = Slice(src[DatOf(w.cat)], SumSizes(idx, w.line - 1),
                                  DeclaredSize(idx, w.line))

\* A kept record of positive length written after a skipped record of positive length.
C2_Witness ==
    \E i \in 1..Len(writes) :
        /\ writes[i].line > 1
        /\ OnlySkippedBefore(src[writes[i].cat], writes[i].line)
        /\ writes[i].at > 0
        /\ writes[i].bytes # <<>>

\* C3: every record consumes its byte length of the data stream, written or not:
\* at every index line the cursor is at the sum of the lengths of the lines before
\* it (as far as the data goes), also after a kept record whose file could not be
\* opened.
C3_CursorFollowsIndex ==
    \A t \in TargetNames :
        xpc[t] = "loop" =>
            cursor[t] = Min(SumSizes(src[xcat[t]], lineNo[t] - 1), Len(src[DatOf(xcat[t])]))

\* C4: no failure to create a record's directories or file leaves extract_cat as an
\* exception.
WriteSideErrors == {"FileExistsError", "NotADirectoryError", "PermissionError"}

C4_WriteFailuresCaught == \A t \in TargetNames : xerr[t] \notin WriteSideErrors

\* C5: with the index file present and its data file absent, extract_cat never
\* raises, writes no file, creates no directory, and returns after one warning.
C5_MissingDatIsNoOp ==
    \A t \in TargetNames :
        (xpc[t] # "idle" /\ Exists(xcat[t]) /\ ~Exists(DatOf(xcat[t]))) =>
            /\ xpc[t] \in {"call", "returned"}
            /\ files = <<>> /\ writes = <<>> /\ dirs = InitialDirs
            /\ xpc[t] = "call" => logs = <<>>
            /\ xpc[t] = "returned" => Len(logs) = 1 /\ logs[1].lvl = "warning"

\* An index with a record of the filter, no data file, the call returned.
C5_Witness ==
    /\ Exists(TCat) /\ ~Exists(DatOf(TCat)) /\ src[TCat] = <<LineAx>>
    /\ xpc[Base] = "returned"

\* C6: with the index file absent, extract_cat ends only by raising the not-found
\* error, and leaves the output tree as it was, with or without a data file of the
\* same stem.
C6_MissingCatRaises ==
    \A t \in TargetNames :
        (xpc[t] # "idle" /\ ~Exists(xcat[t])) =>
            /\ xpc[t] \in {"call", "raised"}
            /\ xpc[t] = "raised" => xerr[t] = "FileNotFoundError"
            /\ files = <<>> /\ writes = <<>> /\ dirs = InitialDirs

\* The data file exists, the index does not, the call has raised.
C6_Witness == ~Exists(TCat) /\ Exists(DatOf(TCat)) /\ xpc[Base] = "raised"

\* The archive names, read off the characters of the name: it ends in .cat and the
\* four characters before the .cat are not _sig.
IsArchiveName(n) ==
    \E k \in 1..Len(n) :
        /\ SubSeq(n, k, Len(n)) = <<".", "c", "a", "t">>
        /\ ~(k > 4 /\ SubSeq(n, k - 4, k - 1) = <<"_", "s", "i", "g">>)

ArchivesIn(dir) == {f \in DOMAIN src : f.dir = dir /\ IsArchiveName(f.name)}

\* C7: collect_files raises the no-archives error exactly when the directory has no
\* .cat file whose stem does not end in _sig; otherwise it returns exactly those files
\* (each once), all of them for an empty include, for a non-empty include those whose
\* name is an entry of it, which may be none.
C7_CollectFiles ==
    /\ cpc = "raised" => ArchivesIn(<<>>) = {}
    /\ cpc = "returned" =>
          /\ ArchivesIn(<<>>) # {}
          /\ \A i, j \in 1..Len(cres.files) : cres.files[i] = cres.files[j] => i = j
          /\ Range(cres.files) =
                IF include = <<>> THEN ArchivesIn(<<>>)
                ELSE {f \in ArchivesIn(<<>>) : \E i \in 1..Len(include) : include[i] = f.name}

\* A directory with archives and a signature file, and an include list that names
\* only a file that is not there: an empty result, not an error.
C7_Witness ==
    /\ cpc = "returned"
    /\ cres.files = <<>>
    /\ include = <<NameMissing>>
    /\ \E f \in DOMAIN src : f.name = NameASig
    /\ \E f \in DOMAIN src : f.name = NameA

\* C9: extraction_job passes its files to extract_cat in the order of the list, and
\* an exception of extract_cat for one file does not end the job: it is caught (the
\* job goes on to the progress update), the job fails only if its progress display
\* raises, and a job that returns has called extract_cat with every file of the list.
C9_JobSurvivesPairErrors ==
    \A t \in TargetNames :
        /\ Len(called[t]) <= Len(jfiles[t])
        /\ called[t] = SubSeq(jfiles[t], 1, Len(called[t]))
        /\ jpc[t] = "done" => called[t] = jfiles[t]
        /\ jpc[t] = "failed" => t \in uiErr
        /\ (jpc[t] = "running" /\ xpc[t] = "raised") => ENABLED (JAfter(t) \/ JAfterRaises(t))

\* A finished job whose first file raised (a missing index, a short line or a
\* directory that cannot be made) and whose later file was extracted.
C9_Witness ==
    /\ jpc[Base] = "done"
    /\ Len(jfiles[Base]) = 3
    /\ \E i \in 1..Len(logs) : logs[i].msg = "extract_error" /\ logs[i].path = jfiles[Base][1]
    /\ \E i \in 1..Len(writes) : writes[i].cat = jfiles[Base][3]

\* C8: when expansions are asked for and foundation_dir has no extensions
\* directory, main ends only after the job of the base target has run: a warning is
\* logged, no expansion target is built, and the matching files of the base archives
\* are in the output root.
C8_BaseRunsWithoutExtensionsDir ==
    (wantExp /\ ExtensionsDir \notin srcDirs /\ mpc = "returned") =>
        /\ \E i \in 1..Len(logs) : logs[i].msg = "no_expansions_dir"
        /\ Len(targets) = 1
        /\ submitted = <<Base>>
        /\ jpc[Base] \in {"done", "failed"}
        /\ (include = <<>> /\ Base \notin uiErr) => OutRoot.parts \o << <<"a", ".", "x">> >> \in DOMAIN files

\* C10: a job that ends with an exception does not stop main or the other jobs: main
\* raises only before the first job is submitted, it returns only when every submitted
\* job has ended, and every job whose progress display works has then run through
\* all its files; while main waits there is a finished job to take, a job running,
\* or a queued job that a free worker can start, with more targets than workers too.
C10_FailedJobIsIsolated ==
    /\ mpc = "raised" => submitted = <<>>
    /\ mpc = "returned" =>
          \A t \in Range(submitted) :
              /\ jpc[t] \in {"done", "failed"}
              /\ t \notin uiErr => (jpc[t] = "done" /\ called[t] = jfiles[t])
    /\ mpc = "await" =>
          \/ awaited = Range(submitted)
          \/ \E t \in Range(submitted) \ awaited : jpc[t] \in {"done", "failed"}
          \/ Running # {}
          \/ \E t \in TargetNames : FirstQueued(t) /\ Cardinality(Running) < workers

\* Three targets on fewer workers: one job has failed, main has returned, and a
\* sibling job has written its file.
C10_Witness ==
    /\ mpc = "returned"
    /\ Len(submitted) = 3
    /\ workers < 3
    /\ \E t \in Range(submitted) : jpc[t] = "failed"
    /\ \E t \in Range(submitted) : jpc[t] = "done" /\ \E i \in 1..Len(writes) : writes[i].t = t

\* C13: started without -t, the program extracts the records of every extension the
\* help text names: when main has returned, each record of the base index whose
\* extension is xml, xsd, html, js, css or lua is a file of the output root.
C13_DefaultTypesMatchAllSix ==
    argTypes = DefaultTypes =>
        /\ mpc \notin {"idle", "exited"} =>
              \A e \in DefaultExtensions : Kept(RecPath(Fields(LineOfExt(e))), extensions)
        /\ jpc[Base] = "done" =>
              \A i \in 1..Len(src[CatNamed("1")]) :
                  LET filepath == RecPath(Fields(src[CatNamed("1")][i]))
                  IN  (Drop1(PathSuffix(filepath)) \in DefaultExtensions /\ Exists(DatOf(CatNamed("1"))))
                          => PathJoin(OutRoot, filepath).parts \in DOMAIN files

\* C11: the jobs of different targets own disjoint output subtrees: no output path
\* is written by the jobs of two targets, whatever record paths the indexes hold.
C11_DisjointOutputSubtrees ==
    \A i, j \in 1..Len(writes) : writes[i].path = writes[j].path => writes[i].t = writes[j].t

\* C12: the output tree of a run into an empty output root is a function of the
\* inputs: when main has returned, the directories and files are those that the
\* jobs of its targets leave when they run one after the other, whatever the
\* scheduling of the worker threads was.
C12_OutputIsFunctionOfInputs ==
    mpc = "returned" =>
        LET made == {<<>>, OutRoot.parts} \cup {OutputDir(targets[k].name).parts : k \in 1..Len(targets)}
            ran == SelectSeq(targets, LAMBDA g : g.name \in Range(submitted))
            tree == TargetsTree(ran, 1, made, <<>>)
        IN  files = tree.files /\ dirs = tree.dirs

\* A line whose byte length cannot be determined: fewer than three fields, or a
\* length field that is not a number.
Malformed(line) == ~HasSizeField(Fields(line)) \/ ~IsInt(SizeField(Fields(line)))

\* The step of extract_cat for target t that meets a malformed line.
StopsAtMalformed(t) ==
    /\ xpc[t] = "loop"
    /\ lineNo[t] <= Len(src[xcat[t]])
    /\ Malformed(src[xcat[t]][lineNo[t]])
    /\ xpc'[t] # xpc[t] \/ lineNo'[t] # lineNo[t]

C14_Safe ==
    /\ \A i \in 1..Len(writes) :
          \A k \in 1..writes[i].line : ~Malformed(src[writes[i].cat][k])
    /\ \A t \in TargetNames :
          /\ (jpc[t] = "running" /\ xpc[t] = "raised") => ENABLED (JAfter(t) \/ JAfterRaises(t))
          /\ (jpc[t] = "done" /\ t \notin uiErr) => called[t] = jfiles[t]

\* C14: a line whose byte length cannot be determined ends the pass over its archive
\* pair: the step that meets it raises and changes neither the data position nor the
\* output tree, no record of a later line of that pair is ever written, and the job
\* catches the exception and goes on to its next archive pair.
C14_MalformedLineStopsPair ==
    /\ []C14_Safe
    /\ [][\A t \in TargetNames :
             StopsAtMalformed(t) =>
                 /\ xpc'[t] = "raised"
                 /\ xerr'[t] \in {"IndexError", "ValueError"}
                 /\ cursor'[t] = cursor[t]
                 /\ UNCHANGED <<dirs, files, writes>>]_vars

\* The job went through 1.cat, whose first record was written and whose second line
\* is malformed, and then extracted 2.cat.
C14_Witness ==
    /\ jpc[Base] = "done"
    /\ jfiles[Base] = <<CatNamed("1"), CatNamed("2")>>
    /\ Len(src[CatNamed("1")]) = MaxLines
    /\ ~Malformed(src[CatNamed("1")][1])
    /\ Malformed(src[CatNamed("1")][MaxLines])
    /\ \E i \in 1..Len(writes) : writes[i].cat = CatNamed("1") /\ writes[i].line = 1
    /\ \E i \in 1..Len(logs) : logs[i].msg = "extract_error" /\ logs[i].path = CatNamed("1")
    /\ \E i \in 1..Len(writes) : writes[i].cat = CatNamed("2")

\* C15: blank and whitespace-only lines of an index are passed over: extract_cat
\* does not raise at such a line (and so goes on to the records after it).
C15_BlankLinesSkipped ==
    \A t \in TargetNames :
        (xpc[t] = "raised" /\ Exists(xcat[t]) /\ lineNo[t] >= 1) =>
            Strip(src[xcat[t]][lineNo[t]]) # <<>>

\* C16: no record with a negative byte length is acted on: every write comes from
\* a line whose length field is a non-negative integer.
C16_NoNegativeLength ==
    \A i \in 1..Len(writes) : DeclaredSize(src[writes[i].cat], writes[i].line) >= 0

\* C19: extract_cat creates directories and files only inside the output root,
\* whatever the record paths are.
C19_WritesStayInOutputRoot ==
    /\ \A p \in DOMAIN files : StartsWith(p, OutRoot.parts)
    /\ \A d \in dirs \ InitialDirs : StartsWith(d, OutRoot.parts)

\* C20: the order of the archive pairs of a job has no effect on the output tree:
\* when the job is done, the tree is the one the job leaves for every other order of
\* its file list.
C20_PairOrderIrrelevant ==
    (jpc[Base] = "done" /\ Base \notin uiErr) =>
        \A q \in Orders(Range(jfiles[Base])) :
            LET tree == JobTree(q, 1, jout[Base], extensions, InitialDirs, <<>>, roDirs, uiErr, Base)
            IN  files = tree.files /\ dirs = tree.dirs

\* C17: an expansion directory without archive files costs only its own target:
\* main is not ended by the no-archives error while the base directory has archives.
C17_EmptyExpansionIsIsolated ==
    (mpc = "raised" /\ merr = "FileNotFoundError") => AllFiles(<<>>) = {}

\* Expansions are asked for and a directory of extensions_dir has the prefix but
\* is not a key of EXPANSIONS.
UnknownExpansionFound ==
    /\ wantExp
    /\ ExtensionsDir \in srcDirs
    /\ \E n \in OfficialExpansions : n \notin EXPANSIONS

\* C18: with an expansion directory that EXPANSIONS does not know, main never
\* returns and never submits a job, so nothing is written for any target; it ends
\* with the KeyError of the lookup, unless the base directory had no archives and
\* main ended with that error before it looked at the expansions.
C18_UnknownExpansionIsFatal ==
    UnknownExpansionFound =>
        /\ mpc \notin {"dispatch", "await", "returned"}
        /\ submitted = <<>>
        /\ \A t \in TargetNames : jpc[t] = "none"
        /\ files = <<>> /\ writes = <<>>
        /\ mpc = "raised" =>
              \/ merr = "KeyError"
              \/ merr = "FileNotFoundError" /\ AllFiles(<<>>) = {}

\* main has collected the base target and a known expansion, made the output
\* directory of that expansion, and ended with the KeyError of the unknown one.
C18_Witness ==
    /\ UnknownExpansionFound
    /\ mpc = "raised"
    /\ merr = "KeyError"
    /\ Len(targets) = 2
    /\ OutputDir(DlcBoron).parts \in dirs
    /\ files = <<>>

\* The notifications after the first one.
Advances(t) == Tail(progress[t])

\* C21: a job over N files tells the progress display once, before anything else,
\* that a task of N units begins, and then advances it by one for each file, in
\* list order and after the extraction of that file has returned or raised; a job
\* that is done has advanced N times.
C21_ProgressNotifications ==
    \A t \in TargetNames :
        /\ jpc[t] \in {"none", "queued"} => progress[t] = <<>>
        /\ jpc[t] \in {"running", "done", "failed"} =>
              /\ progress[t] # <<>>
              /\ Head(progress[t]) = [op |-> "add_task", total |-> Len(jfiles[t])]
              /\ \A k \in 1..Len(Advances(t)) :
                    /\ k <= Len(called[t])
                    /\ Advances(t)[k] = [op |-> "advance", file |-> jfiles[t][k].name]
              /\ xpc[t] # "idle" => Len(Advances(t)) = Len(called[t]) - 1
              /\ (xpc[t] = "idle" /\ t \notin uiErr) => Len(Advances(t)) = Len(called[t])
              /\ (jpc[t] = "done" /\ t \notin uiErr) => Len(Advances(t)) = Len(jfiles[t])

\* A finished job over three files, one of which raised: one begin and three
\* advances.
C21_Witness ==
    /\ jpc[Base] = "done"
    /\ Len(jfiles[Base]) = MaxFiles
    /\ \E i \in 1..Len(logs) : logs[i].msg = "extract_error"
    /\ Len(progress[Base]) = MaxFiles + 1
    /\ progress[Base][1].op = "add_task"
    /\ progress[Base][MaxFiles + 1].op = "advance"

\* The data file of the call of target t is shorter than the sum of the byte
\* lengths its index declares.
ShortData(t) ==
    /\ xpc[t] # "idle"
    /\ Exists(xcat[t])
    /\ Exists(DatOf(xcat[t]))
    /\ Len(src[DatOf(xcat[t])]) < SumSizes(src[xcat[t]], Len(src[xcat[t]]))

\* C22: with a data file shorter than the sum of the declared byte lengths,
\* extract_cat does not raise and does not read past the end of the data: every
\* write is the part of the record's range that the data holds, at most the declared
\* length, and when the call has returned every record of the filter was written,
\* those that begin at or after the end of the data as empty files.
C22_ShortDataIsTruncated ==
    \A t \in TargetNames :
        ShortData(t) =>
            LET idx == src[xcat[t]]
                data == src[DatOf(xcat[t])]
            IN  /\ xpc[t] # "raised"
                /\ cursor[t] <= Len(data)
                /\ \A i \in 1..Len(writes) :
                      writes[i].t = t =>
                          /\ Len(writes[i].bytes) <= DeclaredSize(idx, writes[i].line)
                          /\ writes[i].bytes = Slice(data, writes[i].at, DeclaredSize(idx, writes[i].line))
                /\ xpc[t] = "returned" =>
                      \A k \in 1..Len(idx) :
                          InFilter(idx, k) =>
                              LET path == PathJoin(xout[t], RecPath(Fields(idx[k]))).parts
                              IN  /\ path \in DOMAIN files
                                  /\ (SumSizes(idx, k - 1) >= Len(data)
                                        /\ \A j \in 1..Len(idx) : RecPath(Fields(idx[j])) = RecPath(Fields(idx[k])) => j = k)
                                       => files[path] = <<>>

====
